---- MODULE Spec2Model ----
(***************************************************************************)
(* Model of the dealcollector crawl core (src/crawlers):                   *)
(*   - the adapters' crawl / _crawl_page loop with the stop marker         *)
(*     (community/clien.py, arcalive.py, quasarzone.py),                   *)
(*   - cleanup_old_deals, filter_duplicates_by_title and                   *)
(*     save_deals_to_supabase (main.py),                                   *)
(*   - CrawlerManager.crawl_all and _get_latest_urls (crawler_manager.py). *)
(* The Supabase table `deals` and the RPC get_latest_urls_per_community    *)
(* live outside src/ and are modelled from the specification's Store       *)
(* boundary.                                                               *)
(*                                                                         *)
(* The specifications share the variables:                                 *)
(*   Spec       one CrawlerManager.crawl_all run after the other           *)
(*   SpecTrim   one cleanup_old_deals call, query by query, with a         *)
(*              concurrent writer                                          *)
(*   SpecCrawl  one adapter crawl call, list page by list page             *)
(*   SpecGoto   one BaseCrawler._safe_goto call, attempt by attempt        *)
(*   SpecFilter one filter_duplicates_by_title call, deal by deal          *)
(*   SpecSave   one save_deals_to_supabase call, insert by insert          *)
(*   SpecParse  the article loop of one _crawl_page call                   *)
(*   SpecStoreFailure  a cleanup_old_deals or a                            *)
(*              filter_duplicates_by_title call with failing queries       *)
(*   SpecFilterPair  one filter_duplicates_by_title call on a batch of     *)
(*              two records                                                *)
(*   SpecCommunity  one CrawlerManager.crawl_community call                *)
(*   SpecMain   one main() call, from get_client to the return             *)
(***************************************************************************)
EXTENDS Integers, Sequences, FiniteSets, TLC

VARIABLES
    store,          \* table deals: set of rows [community_id, url, created_at]
    \* ---- CrawlerManager.crawl_all (Spec) ----
    run,            \* runs started so far, counted up to MaxRuns (a run is a process)
    pc,             \* position of the run inside crawl_all
    idx,            \* index into the registry of the source being processed
    latest_urls,    \* CrawlerManager.latest_urls, community_id -> url or None
    deals,          \* deals / filtered_deals of the current source
    pending,        \* deals_sorted not yet inserted by save_deals_to_supabase
    saved_count,    \* save_deals_to_supabase.saved_count
    total_crawled,  \* crawl_all.total_crawled
    total_saved,    \* crawl_all.total_saved
    returned,       \* <<>> or the pair crawl_all returned
    hist,           \* per source, in this run: status, len(deals), rows inserted
    call,           \* the latest crawler.crawl call of this run and its outcome
    prestored,      \* whether the table held every deal of the batch when save began
    lookups,        \* latest-URL queries issued in this run
    snapshot,       \* the marker map as the lookup of this run left it
    \* ---- cleanup_old_deals (SpecTrim) ----
    t_pc,           \* count | cutoff | delete | done
    t_cid,          \* argument community_id
    t_keep,         \* argument keep_count
    t_total,        \* total_count
    t_cutoff,       \* cutoff_time
    t_log,          \* the queries issued, in order
    t_store0,       \* the table when cleanup_old_deals was called
    t_writes,       \* rows the concurrent writer inserted during the call
    \* ---- adapter crawl (SpecCrawl) ----
    c_pc,           \* call | loop | returned | raised
    c_kind,         \* which adapter
    c_site,         \* the site's listing, newest first, PageSize items a page
    c_max_pages,    \* argument max_pages
    c_kw,           \* whether the call passes the keyword last_url
    c_last_url,     \* argument last_url
    c_navfail,      \* list pages whose navigation fails
    c_page_num,     \* page_num of the for loop
    c_deals,        \* deals
    c_should_stop,  \* should_stop
    c_fetched,      \* list pages navigated to, in order
    \* ---- BaseCrawler._safe_goto (SpecGoto) ----
    g_pc,           \* idle | loop | backoff | returned
    g_max_retries,  \* argument max_retries
    g_outcome,      \* what the k-th page.goto of the call does: ok | timeout | error
    g_attempt,      \* attempt of the for loop
    g_gotos,        \* page.goto calls made so far
    g_sleeps,       \* the time.sleep calls made so far, in order
    g_result,       \* none | True | False
    \* ---- filter_duplicates_by_title (SpecFilter) ----
    f_pc,           \* idle | lookup | loop | returned
    f_deals,        \* argument deals: records [url, title]
    f_window,       \* rows the lookback query finds, in the order it returns them
    f_query_ok,     \* whether the lookback query goes through
    f_existing,     \* existing_titles: url -> title
    f_i,            \* deals looked at so far by the for loop
    f_out,          \* filtered_deals
    \* ---- save_deals_to_supabase (SpecSave) ----
    s_pc,           \* idle | sort | insert | returned | raised
    s_deals,        \* argument deals: records [url, posted_at]
    s_sorted,       \* deals_sorted
    s_i,            \* deals the for loop has been through
    s_saved,        \* saved_count
    s_dup,          \* duplicate_count
    s_err,          \* error_count
    s_log,          \* the inserts attempted, in order: the deal and how it ended
    s_result,       \* none or the count returned
    \* ---- the article loop of an adapter's _crawl_page (SpecParse) ----
    p_pc,           \* idle | loop | returned
    p_kind,         \* which adapter
    p_articles,     \* the articles of the page: [url, date], date None if unresolvable
    p_last_url,     \* argument last_url
    p_i,            \* articles the for loop has been through
    p_deals,        \* deals
    p_should_stop,  \* should_stop
    \* ---- CrawlerManager.crawl_community (SpecCommunity) ----
    m_pc,           \* idle | check | crawl | filter | save | trim | returned
    m_name,         \* argument community_name
    m_deals,        \* deals / filtered_deals
    m_saved,        \* saved_count
    m_result,       \* none or the value returned
    m_call,         \* the crawler.crawl call made: adapter, marker passed, outcome
    m_store0,       \* the table when crawl_community was called
    m_trimmed,      \* community ids cleanup_fn was called for
    \* ---- main and the exceptions raised below it (SpecMain) ----
    x_pc,           \* idle | connect | manager | lookup | crawl | filter | save | trim | returned | raised
    x_idx,          \* index into the registry of the source crawl_all is at
    x_log,          \* the exceptions caught so far: where they were raised
    x_at            \* none or where the exception that left main was raised

runVars   == <<run, pc, idx, latest_urls, deals, pending, saved_count,
               total_crawled, total_saved, returned, hist, call, prestored,
               lookups, snapshot>>
trimVars  == <<t_pc, t_cid, t_keep, t_total, t_cutoff, t_log, t_store0, t_writes>>
crawlVars == <<c_pc, c_kind, c_site, c_max_pages, c_kw, c_last_url, c_navfail,
               c_page_num, c_deals, c_should_stop, c_fetched>>
gotoVars  == <<g_pc, g_max_retries, g_outcome, g_attempt, g_gotos, g_sleeps, g_result>>
filterVars == <<f_pc, f_deals, f_window, f_query_ok, f_existing, f_i, f_out>>
saveVars  == <<s_pc, s_deals, s_sorted, s_i, s_saved, s_dup, s_err, s_log, s_result>>
parseVars == <<p_pc, p_kind, p_articles, p_last_url, p_i, p_deals, p_should_stop>>
communityVars == <<m_pc, m_name, m_deals, m_saved, m_result, m_call, m_store0, m_trimmed>>
mainVars  == <<x_pc, x_idx, x_log, x_at>>
unitVars  == <<gotoVars, filterVars, saveVars, parseVars, communityVars, mainVars>>
vars      == <<store, runVars, trimVars, crawlVars, unitVars>>

-----------------------------------------------------------------------------
(* Bounds of the model *)

NumUrls == 3
RunUrls == 2
PageSize == 2
MaxListing == 4
MaxSitePages == 2
MaxTime == 2
MaxKeep == 2
MaxWrites == 1
MaxRuns == 2
MaxRetries == 3
MaxTitle == 1
MaxBatch == 1
MaxWindow == 1
MaxSaveBatch == 2
MaxArticles == 2

(* Program constants *)

\* Python's None (last_url: str = None)
None == 0
\* CRAWL_CONFIG[...]['max_pages']
MaxPagesCfg == 1

Urls == 1 .. NumUrls

\* community_id of clien, quasarzone, arcalive in CRAWL_CONFIG
Clien == 10
Quasarzone == 40
Arcalive == 60

\* _safe_goto(self, page, url, max_retries: int = 3)
DefaultMaxRetries == 3
\* wait_time = (attempt + 1) * 2
BackoffFactor == 2
\* DUPLICATE_CHECK['similarity_threshold'] = 0.85, in hundredths
ThresholdPct == 85

-----------------------------------------------------------------------------
(* The store: table deals *)

Row(c, u, t) == [community_id |-> c, url |-> u, created_at |-> t]

RowsOf(st, c) == {r \in st : r.community_id = c}

HasKey(st, c, u) == \E r \in st : r.community_id = c /\ r.url = u

SetMax(S) == CHOOSE x \in S : \A y \in S : y <= x

\* created_at of a new row: later than every row of its community. The code
\* compares created_at only among the rows of one community (cleanup_old_deals,
\* the latest url per community), so the model keeps one clock per community.
Now(st, c) ==
    IF RowsOf(st, c) = {} THEN 1 ELSE 1 + SetMax({r.created_at : r \in RowsOf(st, c)})

\* insert(record) -> success | conflict: the unique key (community_id, url)
StoreAccepts(st, c, u) == ~HasKey(st, c, u)

StoreInsert(st, c, u) == st \cup {Row(c, u, Now(st, c))}

\* The same table with created_at renumbered 1, 2, ... per community, order kept
Compact(st) ==
    {Row(r.community_id, r.url,
         Cardinality({q.created_at : q \in {x \in RowsOf(st, r.community_id) :
                                               x.created_at <= r.created_at}})) : r \in st}

KeysUnique(st) ==
    \A r1, r2 \in st :
        (r1.community_id = r2.community_id /\ r1.url = r2.url) => r1 = r2

-----------------------------------------------------------------------------
(* The calls modelled on their own, while they are not running *)

GotoIdle ==
    /\ g_pc = "idle" /\ g_max_retries = 0 /\ g_outcome = <<>> /\ g_attempt = 0
    /\ g_gotos = 0 /\ g_sleeps = <<>> /\ g_result = "none"

FilterIdle ==
    /\ f_pc = "idle" /\ f_deals = <<>> /\ f_window = <<>> /\ f_query_ok = FALSE
    /\ f_existing = <<>> /\ f_i = 0 /\ f_out = <<>>

SaveIdle ==
    /\ s_pc = "idle" /\ s_deals = <<>> /\ s_sorted = <<>> /\ s_i = 0
    /\ s_saved = 0 /\ s_dup = 0 /\ s_err = 0 /\ s_log = <<>> /\ s_result = "none"

ParseIdle ==
    /\ p_pc = "idle" /\ p_kind = "none" /\ p_articles = <<>> /\ p_last_url = None
    /\ p_i = 0 /\ p_deals = <<>> /\ p_should_stop = FALSE

CommunityIdle ==
    /\ m_pc = "idle" /\ m_name = None /\ m_deals = <<>> /\ m_saved = 0
    /\ m_result = "none" /\ m_call = <<>> /\ m_store0 = {} /\ m_trimmed = {}

MainIdle == x_pc = "idle" /\ x_idx = 0 /\ x_log = <<>> /\ x_at = "none"

UnitIdle == GotoIdle /\ FilterIdle /\ SaveIdle /\ ParseIdle /\ CommunityIdle /\ MainIdle

-----------------------------------------------------------------------------
(* main.py: cleanup_old_deals, query by query *)

\* select('id', count='exact').eq('community_id', community_id)
CountBySource(st, c) == Cardinality(RowsOf(st, c))

\* total_count < keep_count instead of <=
NeedsNoCleanupStrict(total, keep) == total < keep

\* if total_count <= keep_count: return
NeedsNoCleanup(total, keep) == total <= keep

\* len(deals.data) of select('created_at').order(desc).limit(keep_count)
CutoffRowCount(st, c, keep) ==
    IF CountBySource(st, c) < keep THEN CountBySource(st, c) ELSE keep

\* deals.data[-1]['created_at']: created_at of the keep_count-th newest row
CutoffTime(st, c, keep) ==
    CHOOSE t \in {r.created_at : r \in RowsOf(st, c)} :
        /\ Cardinality({r \in RowsOf(st, c) : r.created_at > t}) < keep
        /\ Cardinality({r \in RowsOf(st, c) : r.created_at >= t}) >= keep

\* A delete that takes the row of the cutoff with it: lte instead of lt
DeleteOlderOrEqual(st, c, cutoff) ==
    {r \in st : ~(r.community_id = c /\ r.created_at <= cutoff)}

\* delete().eq('community_id', community_id).lt('created_at', cutoff_time)
DeleteOlder(st, c, cutoff) ==
    {r \in st : ~(r.community_id = c /\ r.created_at < cutoff)}

\* The whole call with every query succeeding and no writer in between.
CleanupOldDeals(st, c, keep) ==
    IF NeedsNoCleanup(CountBySource(st, c), keep) THEN st
    ELSE IF CutoffRowCount(st, c, keep) < keep THEN st
    ELSE DeleteOlder(st, c, CutoffTime(st, c, keep))

TrimSources == {Clien, Quasarzone}

\* Keys the table may hold in SpecTrim: NumUrls urls of one source, one of the other
TrimKeys == {<<c, u>> : c \in {Clien}, u \in Urls} \cup {<<Quasarzone, 1>>}

\* Every table content over TrimKeys with created_at in 1..MaxTime
TrimStores ==
    {{Row(k[1], k[2], f[k]) : k \in K} :
        <<K, f>> \in {<<K0, f0>> \in (SUBSET TrimKeys) \X [TrimKeys -> 1 .. MaxTime] :
                        \A k \in TrimKeys \ K0 : f0[k] = 1}}

TrimCall ==
    /\ t_pc = "count"
    /\ \E ok \in BOOLEAN :
        IF ~ok
        THEN \* the count query raises: except Exception, logged
             /\ t_pc' = "done"
             /\ t_log' = Append(t_log, "count_failed")
             /\ UNCHANGED t_total
        ELSE /\ t_total' = CountBySource(store, t_cid)
             /\ t_log' = Append(t_log, "count")
             /\ t_pc' = IF NeedsNoCleanup(CountBySource(store, t_cid), t_keep)
                        THEN "done" ELSE "cutoff"
    /\ UNCHANGED <<store, t_cid, t_keep, t_cutoff, t_store0, t_writes>>
    /\ UNCHANGED <<runVars, crawlVars, unitVars>>

TrimCutoff ==
    /\ t_pc = "cutoff"
    /\ \E ok \in BOOLEAN :
        IF ~ok
        THEN /\ t_pc' = "done"
             /\ t_log' = Append(t_log, "cutoff_failed")
             /\ UNCHANGED t_cutoff
        ELSE /\ t_log' = Append(t_log, "cutoff")
             /\ IF CutoffRowCount(store, t_cid, t_keep) < t_keep
                THEN /\ t_pc' = "done"
                     /\ UNCHANGED t_cutoff
                ELSE /\ t_cutoff' = CutoffTime(store, t_cid, t_keep)
                     /\ t_pc' = "delete"
    /\ UNCHANGED <<store, t_cid, t_keep, t_total, t_store0, t_writes>>
    /\ UNCHANGED <<runVars, crawlVars, unitVars>>

TrimDelete ==
    /\ t_pc = "delete"
    /\ \E ok \in BOOLEAN :
        IF ~ok
        THEN /\ t_log' = Append(t_log, "delete_failed")
             /\ UNCHANGED store
        ELSE /\ t_log' = Append(t_log, "delete")
             /\ store' = DeleteOlder(store, t_cid, t_cutoff)
    /\ t_pc' = "done"
    /\ UNCHANGED <<t_cid, t_keep, t_total, t_cutoff, t_store0, t_writes>>
    /\ UNCHANGED <<runVars, crawlVars, unitVars>>

\* Another writer (an overlapping run) inserts a row while the call runs.
TrimWriter ==
    /\ t_pc \in {"count", "cutoff", "delete"}
    /\ Cardinality(t_writes) < MaxWrites
    /\ \E k \in TrimKeys :
        /\ StoreAccepts(store, k[1], k[2])
        /\ store' = StoreInsert(store, k[1], k[2])
        /\ t_writes' = t_writes \cup {Row(k[1], k[2], Now(store, k[1]))}
    /\ UNCHANGED <<t_pc, t_cid, t_keep, t_total, t_cutoff, t_log, t_store0>>
    /\ UNCHANGED <<runVars, crawlVars, unitVars>>

RunIdle ==
    /\ run = 0 /\ pc = "idle" /\ idx = 0
    /\ latest_urls = <<>> /\ deals = <<>> /\ pending = <<>>
    /\ saved_count = 0 /\ total_crawled = 0 /\ total_saved = 0
    /\ returned = <<>> /\ hist = <<>> /\ lookups = 0 /\ snapshot = <<>>
    /\ call = <<>> /\ prestored = FALSE

TrimIdle ==
    /\ t_pc = "idle" /\ t_cid = None /\ t_keep = 0 /\ t_total = 0
    /\ t_cutoff = 0 /\ t_log = <<>> /\ t_store0 = {} /\ t_writes = {}

CrawlIdle ==
    /\ c_pc = "idle" /\ c_kind = "none" /\ c_site = <<>> /\ c_max_pages = 0
    /\ c_kw = FALSE /\ c_navfail = {} /\ c_last_url = None /\ c_page_num = 0 /\ c_deals = <<>>
    /\ c_should_stop = FALSE /\ c_fetched = <<>>

InitTrim ==
    /\ store \in TrimStores
    /\ t_store0 = store
    /\ t_pc = "count"
    /\ t_cid \in TrimSources
    /\ t_keep \in 1 .. MaxKeep
    /\ t_total = 0 /\ t_cutoff = 0 /\ t_log = <<>> /\ t_writes = {}
    /\ RunIdle /\ CrawlIdle /\ UnitIdle

NextTrim == TrimCall \/ TrimCutoff \/ TrimDelete \/ TrimWriter

SpecTrim == InitTrim /\ [][NextTrim]_vars

TrimQueryFailed ==
    \E i \in 1 .. Len(t_log) : t_log[i] \in {"count_failed", "cutoff_failed", "delete_failed"}

\* The call ran to its end, every query succeeded, nobody else wrote.
TrimCompletedAlone == t_pc = "done" /\ ~TrimQueryFailed /\ t_writes = {}

(* C4: after cleanup_old_deals(community_id, keep_count) completes with no
   concurrent writer, the source holds at most keep_count rows, whatever the
   table held before (rows sharing one created_at included). *)
C4_RetentionBound ==
    TrimCompletedAlone => CountBySource(store, t_cid) <= t_keep

(* C5: when the source holds more than keep_count rows, cleanup_old_deals
   leaves exactly the keep_count newest rows by created_at of that source (no
   kept row is older than a deleted one) and changes no row of another source. *)
C5_KeepsExactlyNewest ==
    (TrimCompletedAlone /\ CountBySource(t_store0, t_cid) > t_keep) =>
        /\ RowsOf(store, t_cid) \subseteq RowsOf(t_store0, t_cid)
        /\ Cardinality(RowsOf(store, t_cid)) = t_keep
        /\ \A k \in RowsOf(store, t_cid) :
              \A d \in RowsOf(t_store0, t_cid) \ store :
                  d.created_at < k.created_at
        /\ \A c \in TrimSources \ {t_cid} : RowsOf(store, c) = RowsOf(t_store0, c)

(* C6: if the count query finds at most keep_count rows for the source,
   cleanup_old_deals is a no-op: the count is the only query it issues (no
   cutoff query, no delete) and it removes nothing from the table. *)
C6_NoOpAtOrBelowKeep ==
    (t_log # <<>> /\ t_log[1] = "count" /\ t_total <= t_keep) =>
        /\ t_pc = "done"
        /\ t_log = <<"count">>
        /\ store = t_store0 \cup t_writes
        /\ CountBySource(store, t_cid) = t_total

C6_Witness ==
    /\ t_pc = "done" /\ t_log = <<"count">>
    /\ t_total = t_keep /\ CountBySource(store, t_cid) = t_keep
    /\ store = t_store0

-----------------------------------------------------------------------------
(* community/*.py: crawl and _crawl_page *)

\* ClienCrawler: marker, no de-duplication; ArcaliveCrawler: marker, links
\* de-duplicated page by page; QuasarzoneCrawler: crawl(self, max_pages) only.
Kinds == {"clien", "arcalive", "quasarzone"}

RECURSIVE SeqsUpTo(_, _)
SeqsUpTo(S, n) ==
    IF n = 0 THEN {<<>>}
    ELSE LET shorter == SeqsUpTo(S, n - 1)
         IN  shorter \cup {Append(q, x) : q \in {r \in shorter : Len(r) = n - 1}, x \in S}

Min(a, b) == IF a < b THEN a ELSE b

\* The parsable articles of list page page_num (0-based) of the site
PageItems(site, page_num) ==
    SubSeq(site, page_num * PageSize + 1, Min((page_num + 1) * PageSize, Len(site)))

\* seen_urls / unique_articles: the first link of every article of the page
RECURSIVE UniqueArticles(_)
UniqueArticles(items) ==
    IF items = <<>> THEN <<>>
    ELSE LET front == UniqueArticles(SubSeq(items, 1, Len(items) - 1))
             last  == items[Len(items)]
         IN  IF \E i \in 1 .. Len(front) : front[i] = last
             THEN front ELSE Append(front, last)

\* The articles the for loop of _crawl_page goes through
Articles(kind, items) == IF kind = "arcalive" THEN UniqueArticles(items) ELSE items

\* Position of the first article whose url is last_url, 0 if none
FirstAt(items, url) ==
    IF \E i \in 1 .. Len(items) : items[i] = url
    THEN CHOOSE i \in 1 .. Len(items) :
            items[i] = url /\ \A j \in 1 .. (i - 1) : items[j] # url
    ELSE 0

\* A failed navigation that ends the crawl: (deals, should_stop) = ([], True)
CrawlPageStopsOnFailure(kind, items, navfails, last_url) ==
    [deals |-> <<>>, stop |-> TRUE]

\* _crawl_page: (deals, should_stop)
CrawlPage(kind, items, navfails, last_url) ==
    IF navfails
    THEN [deals |-> <<>>, stop |-> FALSE]
    ELSE LET arts == Articles(kind, items)
             \* if last_url and deal['url'] == last_url: should_stop = True; break
             hit  == IF kind # "quasarzone" /\ last_url # None
                     THEN FirstAt(arts, last_url) ELSE 0
         IN  IF hit = 0
             THEN [deals |-> arts, stop |-> FALSE]
             ELSE [deals |-> SubSeq(arts, 1, hit - 1), stop |-> TRUE]

\* crawl from page page_num on: [deals, fetched, stopped]
RECURSIVE CrawlFrom(_, _, _, _, _, _)
CrawlFrom(kind, site, navfail, max_pages, last_url, page_num) ==
    IF page_num >= max_pages
    THEN [deals |-> <<>>, fetched |-> <<>>, stopped |-> FALSE]
    ELSE LET r == CrawlPage(kind, PageItems(site, page_num), page_num \in navfail, last_url)
         IN  IF r.stop
             THEN [deals |-> r.deals, fetched |-> <<page_num>>, stopped |-> TRUE]
             ELSE LET rest == CrawlFrom(kind, site, navfail, max_pages, last_url, page_num + 1)
                  IN  [deals   |-> r.deals \o rest.deals,
                       fetched |-> <<page_num>> \o rest.fetched,
                       stopped |-> rest.stopped]

\* crawl(max_pages, last_url) once the browser is up
Crawl(kind, site, navfail, max_pages, last_url) ==
    CrawlFrom(kind, site, navfail, max_pages, last_url, 0)

\* crawler.crawl(max_pages=..., last_url=...) binds its arguments: TypeError when
\* the adapter's crawl has no parameter last_url
AcceptsCall(kind, kw) == ~(kind = "quasarzone" /\ kw)

CrawlCall ==
    /\ c_pc = "call"
    /\ IF ~AcceptsCall(c_kind, c_kw)
       THEN c_pc' = "raised_TypeError"
       ELSE \E launched \in BOOLEAN :
                \* p.chromium.launch() is outside the try of crawl
                c_pc' = IF launched THEN "loop" ELSE "raised_launch"
    /\ UNCHANGED <<c_kind, c_site, c_max_pages, c_kw, c_last_url, c_navfail,
                   c_page_num, c_deals, c_should_stop, c_fetched>>
    /\ UNCHANGED <<store, runVars, trimVars, unitVars>>

\* One pass of `for page_num in range(max_pages)` that reaches _crawl_page
CrawlLoopPage ==
    /\ c_pc = "loop"
    /\ c_page_num < c_max_pages
    /\ ~c_should_stop
    /\ LET r == CrawlPage(c_kind, PageItems(c_site, c_page_num),
                          c_page_num \in c_navfail, c_last_url)
       IN  /\ c_deals' = c_deals \o r.deals
           /\ c_should_stop' = r.stop
    /\ c_fetched' = Append(c_fetched, c_page_num)
    /\ c_page_num' = c_page_num + 1
    /\ UNCHANGED <<c_pc, c_kind, c_site, c_max_pages, c_kw, c_last_url, c_navfail>>
    /\ UNCHANGED <<store, runVars, trimVars, unitVars>>

\* The loop ends (range exhausted, or break on should_stop); return deals
CrawlReturn ==
    /\ c_pc = "loop"
    /\ (c_page_num >= c_max_pages \/ c_should_stop)
    /\ c_pc' = "returned"
    /\ UNCHANGED <<c_kind, c_site, c_max_pages, c_kw, c_last_url, c_navfail,
                   c_page_num, c_deals, c_should_stop, c_fetched>>
    /\ UNCHANGED <<store, runVars, trimVars, unitVars>>

Listings == SeqsUpTo(Urls, MaxListing)

InitCrawl ==
    /\ c_pc = "call"
    /\ c_kind \in Kinds
    /\ c_site \in Listings
    /\ c_max_pages \in 1 .. MaxSitePages
    /\ c_kw \in BOOLEAN
    /\ c_last_url \in IF c_kw THEN {None} \cup Urls ELSE {None}
    /\ c_navfail \in {{}} \cup {{p} : p \in 0 .. (MaxSitePages - 1)}
    /\ c_page_num = 0 /\ c_deals = <<>> /\ c_should_stop = FALSE /\ c_fetched = <<>>
    /\ store = {}
    /\ RunIdle /\ TrimIdle /\ UnitIdle

NextCrawl == CrawlCall \/ CrawlLoopPage \/ CrawlReturn

SpecCrawl == InitCrawl /\ [][NextCrawl]_vars

\* What crawl emits when it is given no marker
Unmarked == Crawl(c_kind, c_site, c_navfail, c_max_pages, None).deals

\* The list page on which crawl meets the marker first
MarkerPage ==
    CHOOSE p \in 0 .. (c_max_pages - 1) :
        /\ FirstAt(Articles(c_kind, PageItems(c_site, p)), c_last_url) # 0
        /\ p \notin c_navfail
        /\ \A q \in 0 .. (p - 1) :
              q \in c_navfail \/ FirstAt(Articles(c_kind, PageItems(c_site, q)), c_last_url) = 0

(* C3: an adapter that takes the marker, called with last_url equal to the url
   of the N-th record it emits without a marker, returns exactly the first N-1
   of those records in order and fetches no list page after the page on which
   it met the marker. *)
C3_StopMarkerPrefix ==
    (c_pc = "returned" /\ c_kind # "quasarzone" /\ c_last_url # None) =>
        \A N \in 1 .. Len(Unmarked) :
            Unmarked[N] = c_last_url =>
                /\ c_deals = SubSeq(Unmarked, 1, N - 1)
                /\ c_should_stop
                /\ \A i \in 1 .. Len(c_fetched) : c_fetched[i] <= MarkerPage

-----------------------------------------------------------------------------
(* crawler_manager.py: CrawlerManager.crawl_all, with main.py's filter, save
   and cleanup functions passed in as main() passes them *)

\* self.crawlers, in registration order (three of the registered adapters)
Registered == <<Clien, Quasarzone, Arcalive>>

SourceSet == {Registered[i] : i \in 1 .. Len(Registered)}

\* The keys of CRAWL_CONFIG
Configured == {Clien, Quasarzone, Arcalive}

KindOf(s) ==
    IF s = Clien THEN "clien" ELSE IF s = Quasarzone THEN "quasarzone" ELSE "arcalive"

\* CRAWL_CONFIG[name]['keep_count'] (100 or 200), scaled down so that a source
\* of the model can exceed it
KeepCountCfg == RunUrls - 1

\* What the list pages of a site may show when a run visits it
RunListings == SeqsUpTo(1 .. RunUrls, MaxPagesCfg * PageSize)

\* posted_at of the article behind a url: url 1 is the article posted last
PostedAt(u) == RunUrls + 1 - u

\* rpc('get_latest_urls_per_community'): the url of the newest row of every
\* community that has rows
LatestUrls(st) ==
    [s \in SourceSet |->
        IF RowsOf(st, s) = {} THEN None
        ELSE (CHOOSE r \in RowsOf(st, s) :
                \A q \in RowsOf(st, s) : q.created_at <= r.created_at).url]

NoMarkers == [s \in SourceSet |-> None]

FreshHist == [s \in SourceSet |-> [status |-> "PENDING", batch |-> 0, ins |-> 0]]

NoCall == [src |-> None, passed |-> None, fetched |-> 0, stopped |-> FALSE, err |-> "none"]

\* sorted(deals, key=lambda x: x.get('posted_at', '')): stable, oldest first
RECURSIVE SortByPostedAt(_)
SortByPostedAt(ds) ==
    IF ds = <<>> THEN <<>>
    ELSE LET front == SortByPostedAt(SubSeq(ds, 1, Len(ds) - 1))
             x     == ds[Len(ds)]
             k     == Cardinality({i \in 1 .. Len(front) : PostedAt(front[i]) <= PostedAt(x)})
         IN  SubSeq(front, 1, k) \o <<x>> \o SubSeq(front, k + 1, Len(front))

\* filter_duplicates_by_title: DUPLICATE_CHECK has no key 'check_days', the
\* lookup of recent deals raises KeyError inside the try, existing_titles = {}
\* and every deal is kept
FilterDuplicatesByTitle(ds, st) == ds

\* The per-source handler ends the whole loop.
AbortOnError(i) == Len(Registered) + 1

\* The per-source handler tries the same source again.
RetryOnError(i) == i

\* except Exception ... continue: on with the next registered crawler
NextIndexOnError(i) == i + 1

\* The marker looked up again when the source starts.
MarkerLookedUpAgain(s) == LatestUrls(store)[s]

\* last_url = self.latest_urls.get(community_id)
MarkerFor(s) == latest_urls[s]

\* total_crawled counted only once the source is through.
TotalCrawledUncounted(total, ds) == total

\* total_crawled += len(deals)
TotalCrawledAfter(total, ds) == total + Len(ds)

\* A rejected insert counted as saved.
SavedAfterConflictCounted(n) == n + 1

\* except: 'duplicate' / 'unique' in the message: duplicate_count += 1
SavedAfterConflict(n) == n

\* An empty batch taken through filter, save and trim like any other.
NoDealsNeverSkips(ds) == FALSE

\* if not deals: ... continue
NoDeals(ds) == ds = <<>>

\* A new process: main() builds a CrawlerManager (latest_urls = {}) and calls crawl_all
StartRun ==
    /\ pc \in {"idle", "returned"}
    /\ run' = IF run < MaxRuns THEN run + 1 ELSE run
    /\ pc' = "lookup"
    /\ latest_urls' = NoMarkers
    /\ hist' = FreshHist
    /\ call' = NoCall
    /\ prestored' = FALSE
    /\ lookups' = 0
    /\ snapshot' = NoMarkers
    /\ returned' = <<>>
    /\ idx' = 0 /\ deals' = <<>> /\ pending' = <<>> /\ saved_count' = 0
    /\ total_crawled' = 0 /\ total_saved' = 0
    /\ UNCHANGED <<store, trimVars, crawlVars, unitVars>>

\* self._get_latest_urls(); total_crawled = 0; total_saved = 0
GetLatestUrls ==
    /\ pc = "lookup"
    /\ \E ok \in BOOLEAN :
        latest_urls' = IF ok THEN LatestUrls(store) ELSE NoMarkers
    /\ snapshot' = latest_urls'
    /\ lookups' = lookups + 1
    /\ total_crawled' = 0 /\ total_saved' = 0
    /\ idx' = 1
    /\ pc' = "crawl"
    /\ UNCHANGED <<store, run, deals, pending, saved_count, returned, hist, call, prestored>>
    /\ UNCHANGED <<trimVars, crawlVars, unitVars>>

\* The except branch of the per-source try
FailSource(s) ==
    /\ hist' = [hist EXCEPT ![s].status = "FAILED"]
    /\ idx' = NextIndexOnError(idx)
    /\ pc' = "crawl"
    /\ deals' = <<>> /\ pending' = <<>>

\* The head of the for loop and crawler.crawl(max_pages=..., last_url=last_url)
CrawlSource ==
    /\ pc = "crawl"
    /\ idx <= Len(Registered)
    /\ LET s        == Registered[idx]
           last_url == MarkerFor(s)
       IN  IF s \notin Configured
           THEN /\ hist' = [hist EXCEPT ![s].status = "SKIPPED"]
                /\ idx' = idx + 1
                /\ UNCHANGED <<pc, deals, pending, total_crawled, call>>
           ELSE IF ~AcceptsCall(KindOf(s), TRUE)
           THEN /\ FailSource(s)
                /\ call' = [NoCall EXCEPT !.src = s, !.passed = last_url, !.err = "TypeError"]
                /\ UNCHANGED total_crawled
           ELSE \E launched \in BOOLEAN, site \in RunListings, navfail \in {{}, {0}} :
                    IF ~launched
                    THEN /\ FailSource(s)
                         /\ call' = [NoCall EXCEPT !.src = s, !.passed = last_url,
                                                   !.err = "launch"]
                         /\ UNCHANGED total_crawled
                    ELSE LET r == Crawl(KindOf(s), site, navfail, MaxPagesCfg, last_url)
                         IN  /\ call' = [src |-> s, passed |-> last_url,
                                         fetched |-> Len(r.fetched),
                                         stopped |-> r.stopped, err |-> "none"]
                             /\ IF NoDeals(r.deals)
                                THEN \* if not deals: continue
                                     /\ hist' = [hist EXCEPT ![s].status = "EMPTY"]
                                     /\ idx' = idx + 1
                                     /\ UNCHANGED <<pc, deals, pending, total_crawled>>
                                ELSE /\ hist' = [hist EXCEPT ![s].status = "FILTERING",
                                                             ![s].batch = Len(r.deals)]
                                     /\ deals' = r.deals
                                     /\ total_crawled' = TotalCrawledAfter(total_crawled, r.deals)
                                     /\ pc' = "filter"
                                     /\ UNCHANGED <<idx, pending>>
    /\ UNCHANGED <<store, run, latest_urls, saved_count, total_saved, returned,
                   prestored, lookups, snapshot>>
    /\ UNCHANGED <<trimVars, crawlVars, unitVars>>

\* filtered_deals = filter_duplicates_fn(deals, ...)
FilterStep ==
    /\ pc = "filter"
    /\ LET s == Registered[idx]
       IN  \E raises \in BOOLEAN :
            IF raises
            THEN FailSource(s)
            ELSE /\ deals' = FilterDuplicatesByTitle(deals, store)
                 /\ hist' = [hist EXCEPT ![s].status = "SAVING"]
                 /\ pc' = "save"
                 /\ UNCHANGED <<idx, pending>>
    /\ UNCHANGED <<store, run, latest_urls, saved_count, total_crawled, total_saved,
                   returned, call, prestored, lookups, snapshot>>
    /\ UNCHANGED <<trimVars, crawlVars, unitVars>>

\* save_deals_fn(filtered_deals, ...): the counters and deals_sorted
SaveBegin ==
    /\ pc = "save"
    /\ LET s == Registered[idx]
       IN  \E raises \in BOOLEAN :
            IF raises
            THEN /\ FailSource(s)
                 /\ UNCHANGED <<saved_count, prestored>>
            ELSE /\ pending' = SortByPostedAt(deals)
                 /\ saved_count' = 0
                 /\ prestored' = \A i \in 1 .. Len(deals) : HasKey(store, s, deals[i])
                 /\ pc' = "insert"
                 /\ deals' = <<>>
                 /\ UNCHANGED <<idx, hist>>
    /\ UNCHANGED <<store, run, latest_urls, total_crawled, total_saved, returned,
                   call, lookups, snapshot>>
    /\ UNCHANGED <<trimVars, crawlVars, unitVars>>

\* One pass of `for deal in deals_sorted`: table('deals').insert(deal).execute()
InsertOne ==
    /\ pc = "insert"
    /\ pending # <<>>
    /\ LET s == Registered[idx]
           u == Head(pending)
       IN  \E reached \in BOOLEAN :
            IF ~reached
            THEN \* any other exception: error_count += 1
                 UNCHANGED <<store, saved_count, hist>>
            ELSE IF StoreAccepts(store, s, u)
            THEN /\ store' = StoreInsert(store, s, u)
                 /\ saved_count' = saved_count + 1
                 /\ hist' = [hist EXCEPT ![s].ins = @ + 1]
            ELSE /\ saved_count' = SavedAfterConflict(saved_count)
                 /\ UNCHANGED <<store, hist>>
    /\ pending' = Tail(pending)
    /\ UNCHANGED <<run, pc, idx, latest_urls, deals, total_crawled, total_saved,
                   returned, call, prestored, lookups, snapshot>>
    /\ UNCHANGED <<trimVars, crawlVars, unitVars>>

\* return saved_count; total_saved += saved_count
SaveEnd ==
    /\ pc = "insert"
    /\ pending = <<>>
    /\ total_saved' = total_saved + saved_count
    /\ hist' = [hist EXCEPT ![Registered[idx]].status = "TRIMMING"]
    /\ pc' = "trim"
    /\ UNCHANGED <<store, run, idx, latest_urls, deals, pending, saved_count,
                   total_crawled, returned, call, prestored, lookups, snapshot>>
    /\ UNCHANGED <<trimVars, crawlVars, unitVars>>

\* cleanup_fn(supabase, community_id, keep_count), the last step of the source
CleanupStep ==
    /\ pc = "trim"
    /\ LET s == Registered[idx]
       IN  \E outcome \in {"ok", "query_failed", "raises"} :
            IF outcome = "raises"
            THEN /\ FailSource(s)
                 /\ UNCHANGED store
            ELSE /\ store' = IF outcome = "ok"
                             THEN Compact(CleanupOldDeals(store, s, KeepCountCfg))
                             ELSE store
                 /\ hist' = [hist EXCEPT ![s].status = "DONE"]
                 /\ idx' = idx + 1
                 /\ pc' = "crawl"
                 /\ UNCHANGED <<deals, pending>>
    /\ UNCHANGED <<run, latest_urls, saved_count, total_crawled, total_saved,
                   returned, call, prestored, lookups, snapshot>>
    /\ UNCHANGED <<trimVars, crawlVars, unitVars>>

\* The for loop is exhausted: return total_crawled, total_saved
RunReturn ==
    /\ pc = "crawl"
    /\ idx > Len(Registered)
    /\ returned' = <<total_crawled, total_saved>>
    /\ pc' = "returned"
    /\ UNCHANGED <<store, run, idx, latest_urls, deals, pending, saved_count,
                   total_crawled, total_saved, hist, call, prestored, lookups, snapshot>>
    /\ UNCHANGED <<trimVars, crawlVars, unitVars>>

\* An overlapping run (another process) inserts a row of a source it crawled
OtherInsert ==
    /\ \E s \in {x \in SourceSet : AcceptsCall(KindOf(x), TRUE)}, u \in 1 .. RunUrls :
        /\ StoreAccepts(store, s, u)
        /\ store' = StoreInsert(store, s, u)
    /\ UNCHANGED <<runVars, trimVars, crawlVars, unitVars>>

Init ==
    /\ store = {}
    /\ RunIdle /\ TrimIdle /\ CrawlIdle /\ UnitIdle

RunStep ==
    \/ GetLatestUrls \/ CrawlSource \/ FilterStep \/ SaveBegin
    \/ InsertOne \/ SaveEnd \/ CleanupStep \/ RunReturn

Next == StartRun \/ RunStep \/ OtherInsert

Spec == Init /\ [][Next]_vars

\* Every step of crawl_all returns or raises: a run is never stuck halfway
LiveSpec == Spec /\ WF_vars(RunStep)

-----------------------------------------------------------------------------
(* Claims about crawl_all *)

InRun == pc \notin {"idle", "lookup"}

Finished == {"FAILED", "EMPTY", "DONE", "SKIPPED"}

RECURSIVE SumBatch(_)
SumBatch(S) ==
    IF S = {} THEN 0
    ELSE LET s == CHOOSE x \in S : TRUE IN hist[s].batch + SumBatch(S \ {s})

RECURSIVE SumIns(_)
SumIns(S) ==
    IF S = {} THEN 0
    ELSE LET s == CHOOSE x \in S : TRUE IN hist[s].ins + SumIns(S \ {s})

WithStatus(st) == {s \in SourceSet : hist[s].status = st}

\* C1: a raise in any step of one source is caught at the per-source boundary:
\* the loop goes on to the next registered source, so that every source before
\* the loop's position has been taken up and has ended, none after it has been
\* touched, the run returns only when all of them have ended, and the rows
\* inserted by the sources that went through are part of the returned total_saved.
C1_PerSourceIsolation ==
    InRun =>
        /\ idx \in 1 .. Len(Registered) + 1
        /\ \A i \in 1 .. Len(Registered) :
            /\ i < idx => hist[Registered[i]].status \in Finished
            /\ i > idx => hist[Registered[i]].status = "PENDING"
        /\ pc = "returned" =>
            /\ idx = Len(Registered) + 1
            /\ returned[2] >= SumIns(WithStatus("DONE"))

C1_Witness ==
    /\ pc = "returned"
    /\ hist[Clien].status = "FAILED" /\ hist[Clien].batch > 0 /\ hist[Clien].ins = 0
    /\ hist[Quasarzone].status = "FAILED"
    /\ hist[Arcalive].status = "DONE" /\ hist[Arcalive].ins > 0
    /\ returned[2] = hist[Arcalive].ins

\* C2: the table never holds two rows with the same (community_id, url), whoever
\* wrote them, and a save whose batch was stored already inserts nothing and
\* returns 0.
C2_NoSecondInsert ==
    /\ KeysUnique(store)
    /\ (pc \in {"insert", "trim"} /\ prestored) =>
        /\ saved_count = 0
        /\ hist[Registered[idx]].ins = 0

C2_Witness ==
    /\ run = 2 /\ pc = "trim" /\ prestored
    /\ snapshot = NoMarkers /\ call.passed = None
    /\ hist[Registered[idx]].batch = MaxPagesCfg * PageSize
    /\ saved_count = 0 /\ total_saved = 0
    /\ CountBySource(store, Registered[idx]) > 0

\* C7: every run that has started reaches the return of crawl_all, and what it
\* returns is the pair (total_crawled, total_saved), whichever steps fail.
C7_RunTerminates ==
    (pc = "lookup") ~> (pc = "returned" /\ returned = <<total_crawled, total_saved>>)

C7_Witness ==
    /\ pc = "returned" /\ returned = <<total_crawled, total_saved>>
    /\ snapshot = NoMarkers /\ store # {}
    /\ hist[Clien].status = "FAILED" /\ hist[Clien].batch > 0
    /\ hist[Quasarzone].status = "FAILED"
    /\ hist[Arcalive].status = "FAILED" /\ hist[Arcalive].ins > 0

\* C8 as stated: the returned totals are the sums over the sources that did
\* not fail; a source that failed adds nothing to either of them.
C8_TotalsOverNonFailed ==
    pc = "returned" =>
        /\ returned[1] = SumBatch(SourceSet \ WithStatus("FAILED"))
        /\ returned[2] = SumIns(SourceSet \ WithStatus("FAILED"))

\* C8 amended: the totals are running sums taken as each step completes.
\* total_crawled holds len(deals) of every source whose adapter returned a
\* non-empty batch, total_saved the saved_count of every source whose save
\* returned, whether or not a later step of that source raised.
C8_TotalsAsStepsComplete ==
    InRun =>
        /\ total_crawled = SumBatch(SourceSet)
        /\ total_saved + (IF pc = "insert" THEN saved_count ELSE 0) = SumIns(SourceSet)
        /\ pc = "returned" => returned = <<SumBatch(SourceSet), SumIns(SourceSet)>>

C8_Witness ==
    /\ pc = "returned"
    /\ hist[Clien].status = "FAILED" /\ hist[Clien].ins > 0
    /\ hist[Arcalive].status = "FAILED" /\ hist[Arcalive].batch > 0 /\ hist[Arcalive].ins = 0
    /\ returned = <<hist[Clien].batch + hist[Arcalive].batch, hist[Clien].ins>>

\* C9: the run looks the markers up once, before the first crawler.crawl call,
\* the map stays as that lookup left it, and every adapter call gets the
\* marker of its source out of that map.
C9_LookupOnceReadOnly ==
    /\ pc = "lookup" => (lookups = 0 /\ call = NoCall /\ idx = 0)
    /\ InRun =>
        /\ lookups = 1
        /\ latest_urls = snapshot
        /\ call.src # None => call.passed = snapshot[call.src]

C9_Witness ==
    /\ pc = "filter" /\ lookups = 1
    /\ call.src = Arcalive /\ call.passed # None /\ call.passed = snapshot[Arcalive]
    /\ hist[Clien].ins > 0
    /\ LatestUrls(store)[Clien] # snapshot[Clien]
    /\ LatestUrls(store)[Arcalive] # snapshot[Arcalive]

\* C10 as stated: an adapter that crawl_all calls with last_url = None (the
\* lookup raised, or the source has no row) and whose browser starts visits
\* all max_pages list pages and does not stop early.
C10_NoMarkerAllPages ==
    (InRun /\ call.src # None /\ call.passed = None /\ call.err # "launch") =>
        /\ call.fetched = MaxPagesCfg
        /\ ~call.stopped

-----------------------------------------------------------------------------
(* baseCrawler.py: BaseCrawler._safe_goto *)

GotoOutcomes == {"ok", "timeout", "error"}

\* Every page.goto is taken to have loaded the page.
NavigationAlwaysOk(o) == TRUE

\* page.goto(...) and page.wait_for_timeout(...) went through without an exception
NavigationOk(o) == o = "ok"

\* if attempt < max_retries - 1: sleep and try again, else: give up
HasAttemptLeft(attempt, max_retries) == attempt < max_retries - 1

\* wait_time = (attempt + 1) * 2
WaitTime(attempt) == (attempt + 1) * BackoffFactor

RECURSIVE SeqSum(_)
SeqSum(q) == IF q = <<>> THEN 0 ELSE Head(q) + SeqSum(Tail(q))

\* One pass of `for attempt in range(max_retries)`: the try and its except,
\* up to the sleep
GotoAttempt ==
    /\ g_pc = "loop"
    /\ g_attempt < g_max_retries
    /\ g_gotos' = g_gotos + 1
    /\ IF NavigationOk(g_outcome[g_gotos + 1])
       THEN /\ g_result' = "True" /\ g_pc' = "returned"
       ELSE IF HasAttemptLeft(g_attempt, g_max_retries)
       THEN /\ g_pc' = "backoff" /\ UNCHANGED g_result
       ELSE /\ g_result' = "False" /\ g_pc' = "returned"
    /\ UNCHANGED <<g_max_retries, g_outcome, g_attempt, g_sleeps>>
    /\ UNCHANGED <<store, runVars, trimVars, crawlVars, filterVars, saveVars, parseVars, communityVars, mainVars>>

\* time.sleep(wait_time), then the next pass of the loop
GotoSleep ==
    /\ g_pc = "backoff"
    /\ g_sleeps' = Append(g_sleeps, WaitTime(g_attempt))
    /\ g_attempt' = g_attempt + 1
    /\ g_pc' = "loop"
    /\ UNCHANGED <<g_max_retries, g_outcome, g_gotos, g_result>>
    /\ UNCHANGED <<store, runVars, trimVars, crawlVars, filterVars, saveVars, parseVars, communityVars, mainVars>>

\* The loop is exhausted without a return inside it: return False
GotoExhausted ==
    /\ g_pc = "loop"
    /\ g_attempt >= g_max_retries
    /\ g_result' = "False" /\ g_pc' = "returned"
    /\ UNCHANGED <<g_max_retries, g_outcome, g_attempt, g_gotos, g_sleeps>>
    /\ UNCHANGED <<store, runVars, trimVars, crawlVars, filterVars, saveVars, parseVars, communityVars, mainVars>>

InitGoto ==
    /\ g_pc = "loop"
    /\ g_max_retries \in 0 .. MaxRetries
    /\ g_outcome \in [1 .. MaxRetries -> GotoOutcomes]
    /\ g_attempt = 0 /\ g_gotos = 0 /\ g_sleeps = <<>> /\ g_result = "none"
    /\ store = {}
    /\ RunIdle /\ TrimIdle /\ CrawlIdle /\ FilterIdle /\ SaveIdle /\ ParseIdle /\ CommunityIdle /\ MainIdle

NextGoto == GotoAttempt \/ GotoSleep \/ GotoExhausted

SpecGoto == InitGoto /\ [][NextGoto]_vars

AllAttemptsFail(n) == \A k \in 1 .. n : g_outcome[k] # "ok"

FirstOk(n) ==
    CHOOSE k \in 1 .. n :
        g_outcome[k] = "ok" /\ \A j \in 1 .. (k - 1) : g_outcome[j] # "ok"

\* C11: _safe_goto with max_retries = 3 never makes more than 3 navigation
\* attempts; when every attempt fails it has made exactly 3 and returns False
\* (it has no exit by exception); when attempt k is the first to succeed it
\* returns True after exactly k attempts.
C11_RetryExhaustion ==
    g_max_retries = DefaultMaxRetries =>
        /\ g_gotos <= DefaultMaxRetries
        /\ g_pc = "returned" =>
            IF AllAttemptsFail(DefaultMaxRetries)
            THEN g_gotos = DefaultMaxRetries /\ g_result = "False"
            ELSE g_gotos = FirstOk(DefaultMaxRetries) /\ g_result = "True"

C11_Witness ==
    /\ g_pc = "returned" /\ g_max_retries = DefaultMaxRetries
    /\ AllAttemptsFail(DefaultMaxRetries)
    /\ g_gotos = DefaultMaxRetries /\ g_result = "False"

\* C12: when all 3 attempts of _safe_goto (max_retries = 3) fail, the sleeps
\* add up to 2 + 4 + 6 = 12: attempt x 2 after each failed attempt.
C12_TotalBackoff ==
    (g_pc = "returned" /\ g_max_retries = DefaultMaxRetries
        /\ AllAttemptsFail(DefaultMaxRetries)) =>
            /\ SeqSum(g_sleeps) = 12
            /\ g_sleeps = [k \in 1 .. DefaultMaxRetries |-> k * BackoffFactor]

-----------------------------------------------------------------------------
(* community/*.py: navigation of _crawl_page to a list page *)

\* page.goto calls that crawl made for list page p
GotosOfPage(p) == Cardinality({i \in 1 .. Len(c_fetched) : c_fetched[i] = p})

\* C13: a list page whose navigation fails is navigated to again, up to the
\* attempt cap of _safe_goto, before the adapter takes it to yield no records.
C13_ListPageRetried ==
    c_pc = "returned" =>
        \A p \in c_navfail :
            GotosOfPage(p) > 0 => GotosOfPage(p) = DefaultMaxRetries

\* What list page p yields to the call: nothing when the navigation to it fails
PageYield(p) ==
    IF p \in c_navfail THEN <<>>
    ELSE CrawlPage(c_kind, PageItems(c_site, p), FALSE, c_last_url).deals

RECURSIVE YieldOf(_)
YieldOf(pages) ==
    IF pages = <<>> THEN <<>> ELSE PageYield(Head(pages)) \o YieldOf(Tail(pages))

(* C25: when the navigation to list page k fails, the page contributes no
   record, crawl does not raise, the failure signals no stop, and the pages
   after k are visited and their records returned: unless the marker is met
   on a page that loaded, the call visits all max_pages pages. *)
C25_NavFailureSkipsPage ==
    c_pc \in {"loop", "returned"} =>
        /\ c_deals = YieldOf(c_fetched)
        /\ c_should_stop => c_fetched[Len(c_fetched)] \notin c_navfail
        /\ (c_pc = "returned" /\ ~c_should_stop) =>
              c_fetched = [i \in 1 .. c_max_pages |-> i - 1]

\* Page 0 failed to load, page 1 was visited and gave records
C25_Witness ==
    /\ c_pc = "returned" /\ c_navfail = {0} /\ c_max_pages = 2
    /\ c_fetched = <<0, 1>> /\ c_deals # <<>>

(* C18: within one crawl call, over all the list pages visited, the adapter
   returns no two records with the same url, also when the site links an item
   twice on a page or shows it again on the next page. *)
C18_NoRepeatedUrl ==
    c_pc = "returned" =>
        \A i, j \in 1 .. Len(c_deals) : c_deals[i] = c_deals[j] => i = j

\* The urls a source has rows for
UrlsOf(st, c) == {r.url : r \in RowsOf(st, c)}

\* The step of crawl_all in which the adapter of source s returned no records
CrawledNothing(s) ==
    /\ pc = "crawl" /\ idx <= Len(Registered) /\ Registered[idx] = s
    /\ call'.src = s /\ call'.err = "none"
    /\ hist'[s].batch = 0
    /\ hist'[s].status # "PENDING"

(* C27: when the adapter of a source returns no records, crawl_all marks the
   source EMPTY and goes on with the next one: the step changes neither the
   store nor total_crawled nor total_saved and enters no filter, save or
   trim. A source is filtered, saved or trimmed only with a batch of at least
   one record, and rows of a source disappear only while that source is being
   trimmed, so a source above keep_count that returned nothing keeps all its
   rows in that run. *)
C27_EmptySourceSkipped ==
    [][ \A s \in SourceSet :
          /\ CrawledNothing(s) =>
                /\ hist'[s].status = "EMPTY"
                /\ pc' = "crawl" /\ idx' = idx + 1
                /\ store' = store
                /\ total_crawled' = total_crawled /\ total_saved' = total_saved
          /\ (hist' # <<>> /\ hist'[s].status \in {"FILTERING", "SAVING", "TRIMMING", "DONE"}) =>
                hist'[s].batch > 0
          /\ ~(UrlsOf(store, s) \subseteq UrlsOf(store', s)) =>
                hist # <<>> /\ hist[s].status = "TRIMMING" /\ hist[s].batch > 0
      ]_vars

\* A run returned with a source that came back empty while it held more rows
\* than keep_count, and another source was trimmed in the same run
C27_Witness ==
    /\ pc = "returned"
    /\ \E s \in SourceSet :
        /\ hist[s].status = "EMPTY"
        /\ Cardinality(RowsOf(store, s)) > KeepCountCfg
    /\ \E s \in SourceSet : hist[s].status = "DONE"


\* The moves of one source inside a run: the step it is in ends and the next
\* begins, or the source ends (an empty crawl and a source without
\* configuration end it at the crawl step, an exception at any step)
SourceSteps ==
    { <<"PENDING", "FILTERING">>, <<"PENDING", "EMPTY">>, <<"PENDING", "SKIPPED">>,
      <<"FILTERING", "SAVING">>, <<"SAVING", "TRIMMING">>, <<"TRIMMING", "DONE">> }
    \cup {<<st, "FAILED">> : st \in {"PENDING", "FILTERING", "SAVING", "TRIMMING"}}

(* C20: per-source state machine of crawl_all. A source moves only along
   crawl, filter, save, trim, in this order and never back (so each step runs
   at most once in a run), or from any step to FAILED, which ends it; only the
   source at the loop's position moves, and it moves only while every source
   before it has ended and no source after it has begun. *)
C20_SourceStateMachine ==
    [][ hist # <<>> =>
          \A s \in SourceSet :
            hist'[s].status # hist[s].status =>
                \/ pc \in {"idle", "returned"} /\ hist' = FreshHist
                \/ /\ <<hist[s].status, hist'[s].status>> \in SourceSteps
                   /\ idx \in 1 .. Len(Registered) /\ s = Registered[idx]
                   /\ \A i \in 1 .. (idx - 1) : hist[Registered[i]].status \in Finished
                   /\ \A i \in (idx + 1) .. Len(Registered) :
                          hist[Registered[i]].status = "PENDING"
      ]_vars

\* The first source went through all four steps, the second failed, the third
\* is being saved
C20_Witness ==
    /\ pc = "insert"
    /\ hist[Clien].status = "DONE"
    /\ hist[Quasarzone].status = "FAILED"
    /\ hist[Arcalive].status = "SAVING"

-----------------------------------------------------------------------------
(* utils/duplicate_checker.py: DealDuplicateChecker, over the characters of
   the model: a letter, its capital, a blank, the brackets of a category tag *)

SpecialChars == {" ", "[", "]"}

\* re.sub(r'\[.*?\]', '', title): every "[" with the nearest "]" after it goes
RECURSIVE StripTags(_)
StripTags(t) ==
    IF t = <<>> THEN <<>>
    ELSE IF Head(t) = "[" /\ \E j \in 2 .. Len(t) : t[j] = "]"
    THEN LET j == CHOOSE k \in 2 .. Len(t) :
                    t[k] = "]" /\ \A m \in 2 .. (k - 1) : t[m] # "]"
         IN  StripTags(SubSeq(t, j + 1, Len(t)))
    ELSE <<Head(t)>> \o StripTags(Tail(t))

\* re.sub(r'[^\w가-힣0-9]', '', title)
StripSpecial(t) == SelectSeq(t, LAMBDA c : c \notin SpecialChars)

\* title.lower()
Lower(t) == [i \in 1 .. Len(t) |-> IF t[i] = "A" THEN "a" ELSE t[i]]

\* normalize_title
NormalizeTitle(t) == Lower(StripSpecial(StripTags(t)))

\* SequenceMatcher.find_longest_match: <<i, j, k>>, the longest common block,
\* the one starting earliest in a, then earliest in b; k = 0 if there is none
LongestMatch(a, b) ==
    LET Blocks == {m \in (1 .. Len(a)) \X (1 .. Len(b)) \X (1 .. Len(a)) :
                      /\ m[1] + m[3] - 1 <= Len(a)
                      /\ m[2] + m[3] - 1 <= Len(b)
                      /\ SubSeq(a, m[1], m[1] + m[3] - 1) = SubSeq(b, m[2], m[2] + m[3] - 1)}
    IN  IF Blocks = {} THEN <<0, 0, 0>>
        ELSE CHOOSE m \in Blocks :
                \A n \in Blocks :
                    \/ n[3] < m[3]
                    \/ n[3] = m[3] /\ m[1] < n[1]
                    \/ n[3] = m[3] /\ m[1] = n[1] /\ m[2] <= n[2]

\* The characters SequenceMatcher.get_matching_blocks matches: the longest
\* block, then the same to its left and to its right
RECURSIVE MatchCount(_, _)
MatchCount(a, b) ==
    LET m == LongestMatch(a, b)
    IN  IF m[3] = 0 THEN 0
        ELSE m[3]
             + MatchCount(SubSeq(a, 1, m[1] - 1), SubSeq(b, 1, m[2] - 1))
             + MatchCount(SubSeq(a, m[1] + m[3], Len(a)), SubSeq(b, m[2] + m[3], Len(b)))

\* calculate_similarity(title1, title2) >= pct / 100, with ratio() = 2.0 * M / T
SimilarityAtLeast(title1, title2, pct) ==
    LET clean1 == NormalizeTitle(title1)
        clean2 == NormalizeTitle(title2)
    IN  IF clean1 = <<>> \/ clean2 = <<>>
        THEN 0 >= pct
        ELSE 200 * MatchCount(clean1, clean2) >= pct * (Len(clean1) + Len(clean2))

\* is_duplicate(title1, title2, threshold)
IsDuplicate(title1, title2, pct) == SimilarityAtLeast(title1, title2, pct)

-----------------------------------------------------------------------------
(* main.py: filter_duplicates_by_title, step by step *)

TitleChars == {"a", " "}

Titles == SeqsUpTo(TitleChars, MaxTitle)

FilterRecords == [url : 1 .. RunUrls, title : Titles]

\* 'check_days' in DUPLICATE_CHECK: the dict has 'enabled' and
\* 'similarity_threshold' only, DUPLICATE_CHECK['check_days'] raises KeyError
CheckDaysConfigured == FALSE

\* {deal['url']: deal['title'] for deal in existing_deals.data}: the last row
\* of a url decides its title
ExistingTitles(rows) ==
    LET urls == {rows[k].url : k \in 1 .. Len(rows)}
    IN  IF urls = {} THEN <<>>
        ELSE [u \in urls |->
                rows[CHOOSE k \in 1 .. Len(rows) :
                        rows[k].url = u /\ \A m \in (k + 1) .. Len(rows) : rows[m].url # u].title]

\* The except clause answering with the rows of the window all the same
ExistingOnErrorKept(rows) == ExistingTitles(rows)

\* except Exception: existing_titles = {}
ExistingOnError(rows) == <<>>

\* The try block: check_days, the lookback query, existing_titles; on any
\* exception existing_titles = {}
FilterLookup ==
    /\ f_pc = "lookup"
    /\ f_existing' = IF CheckDaysConfigured /\ f_query_ok
                     THEN ExistingTitles(f_window) ELSE ExistingOnError(f_window)
    /\ f_pc' = "loop"
    /\ UNCHANGED <<f_deals, f_window, f_query_ok, f_i, f_out>>
    /\ UNCHANGED <<store, runVars, trimVars, crawlVars, gotoVars, saveVars, parseVars, communityVars, mainVars>>

\* One pass of `for deal in deals`
FilterLoopDeal ==
    /\ f_pc = "loop"
    /\ f_i < Len(f_deals)
    /\ LET deal == f_deals[f_i + 1]
       IN  f_out' =
            IF deal.url \in DOMAIN f_existing
            THEN f_out
            ELSE IF \E u \in DOMAIN f_existing :
                        IsDuplicate(deal.title, f_existing[u], ThresholdPct)
            THEN f_out
            ELSE Append(f_out, deal)
    /\ f_i' = f_i + 1
    /\ UNCHANGED <<f_pc, f_deals, f_window, f_query_ok, f_existing>>
    /\ UNCHANGED <<store, runVars, trimVars, crawlVars, gotoVars, saveVars, parseVars, communityVars, mainVars>>

\* return filtered_deals
FilterReturn ==
    /\ f_pc = "loop"
    /\ f_i >= Len(f_deals)
    /\ f_pc' = "returned"
    /\ UNCHANGED <<f_deals, f_window, f_query_ok, f_existing, f_i, f_out>>
    /\ UNCHANGED <<store, runVars, trimVars, crawlVars, gotoVars, saveVars, parseVars, communityVars, mainVars>>

InitFilter ==
    /\ f_pc = "lookup"
    /\ f_deals \in SeqsUpTo(FilterRecords, MaxBatch)
    /\ f_window \in SeqsUpTo(FilterRecords, MaxWindow)
    /\ f_query_ok \in BOOLEAN
    /\ f_existing = <<>> /\ f_i = 0 /\ f_out = <<>>
    /\ store = {}
    /\ RunIdle /\ TrimIdle /\ CrawlIdle /\ GotoIdle /\ SaveIdle /\ ParseIdle /\ CommunityIdle /\ MainIdle

NextFilter == FilterLookup \/ FilterLoopDeal \/ FilterReturn

SpecFilter == InitFilter /\ [][NextFilter]_vars

WindowUrls == {f_window[k].url : k \in 1 .. Len(f_window)}

\* C14: a record whose url is among the rows of the lookback window is dropped
\* by filter_duplicates_by_title: it is not in the batch handed on to the save.
C14_ExactMatchDropped ==
    (f_pc = "returned" /\ f_query_ok) =>
        \A i \in 1 .. Len(f_out) : f_out[i].url \notin WindowUrls

\* C15: of the records whose url is not in the window, filter_duplicates_by_title
\* rejects exactly those whose normalized title is similar (>= 0.85) to the
\* normalized title of at least one row of the window.
C15_FuzzyMatchDropped ==
    (f_pc = "returned" /\ f_query_ok) =>
        SelectSeq(f_out, LAMBDA d : d.url \notin WindowUrls)
            = SelectSeq(f_deals, LAMBDA d :
                /\ d.url \notin WindowUrls
                /\ ~\E k \in 1 .. Len(f_window) :
                        IsDuplicate(d.title, f_window[k].title, ThresholdPct))

\* Rows of the source that are newer than row r
NewerThan(st, r) == {q \in RowsOf(st, r.community_id) : q.created_at > r.created_at}

(* C26: the count, the cutoff and the delete of cleanup_old_deals are three
   queries with no transaction around them. Whatever another writer inserts
   in between, every row the call deletes is a row of its source that has at
   least keep_count newer rows of that source at the moment of the delete
   (it is not among the keep_count newest), and a call that ends at the
   cutoff query (fewer than keep_count rows returned, or the query failed)
   deletes nothing. *)
C26_NeverDeletesNewest ==
    [][ /\ \A r \in store \ store' :
              /\ r.community_id = t_cid
              /\ Cardinality(NewerThan(store, r)) >= t_keep
        /\ (t_pc = "cutoff" /\ t_pc' = "done") => store' = store
      ]_vars

\* Another writer inserted a row of the source during the call, which then
\* deleted an older row
C26_Witness ==
    /\ t_pc = "done"
    /\ \E i \in 1 .. Len(t_log) : t_log[i] = "delete"
    /\ \E w \in t_writes : w.community_id = t_cid
    /\ (t_store0 \cup t_writes) \ store # {}

-----------------------------------------------------------------------------
(* main.py: filter_duplicates_by_title on a batch of two newly crawled records *)

BatchPairs == {<<a, b>> : a \in FilterRecords, b \in FilterRecords}

InitFilterPair ==
    /\ f_pc = "lookup"
    /\ f_deals \in BatchPairs
    /\ f_window \in SeqsUpTo(FilterRecords, MaxWindow)
    /\ f_query_ok \in BOOLEAN
    /\ f_existing = <<>> /\ f_i = 0 /\ f_out = <<>>
    /\ store = {}
    /\ RunIdle /\ TrimIdle /\ CrawlIdle /\ GotoIdle /\ SaveIdle /\ ParseIdle /\ CommunityIdle /\ MainIdle

SpecFilterPair == InitFilterPair /\ [][NextFilter]_vars

\* The records of `out` are records of `ds`, unchanged and in the order of `ds`
RECURSIVE KeptInOrder(_, _)
KeptInOrder(out, ds) ==
    IF out = <<>> THEN TRUE
    ELSE IF ds = <<>> THEN FALSE
    ELSE IF Head(out) = Head(ds) THEN KeptInOrder(Tail(out), Tail(ds))
    ELSE KeptInOrder(out, Tail(ds))

(* C30: the batch filter_duplicates_by_title returns holds no two records that
   are duplicates of each other, neither by url nor by similarity of their
   normalized titles (>= 0.85), and it is the input batch with some records
   left out: same records, same order. *)
C30_NoDuplicatesInBatch ==
    f_pc = "returned" =>
        /\ \A i \in 1 .. Len(f_out) : \A j \in (i + 1) .. Len(f_out) :
              /\ f_out[i].url # f_out[j].url
              /\ ~IsDuplicate(f_out[i].title, f_out[j].title, ThresholdPct)
        /\ KeptInOrder(f_out, f_deals)

-----------------------------------------------------------------------------
(* main.py: what cleanup_old_deals writes to the log *)

\* The logger call that follows the i-th query of the call: its level and
\* what it says; "none" when the code goes on without logging
TrimLogLine(i) ==
    IF t_log[i] = "count"
    THEN IF NeedsNoCleanup(t_total, t_keep)
         THEN [level |-> "info", what |-> "cleanup_not_needed"]
         ELSE [level |-> "info", what |-> "delete_planned"]
    ELSE IF t_log[i] = "cutoff"
    THEN IF i = Len(t_log) /\ t_pc = "done"
         THEN [level |-> "warning", what |-> "fewer_than_keep_count"]
         ELSE [level |-> "none", what |-> "none"]
    ELSE IF t_log[i] = "delete"
    THEN [level |-> "info", what |-> "deleted_count"]
    ELSE [level |-> "error", what |-> "cleanup_failed"]

TrimLogLines == {TrimLogLine(i) : i \in 1 .. Len(t_log)}

DeleteIssued == \E i \in 1 .. Len(t_log) : t_log[i] \in {"delete", "delete_failed"}

(* C23: under-deletion is never silent. If cleanup_old_deals has issued its
   delete and the source still holds more than keep_count rows when the call
   ends, the call has logged a warning or an error about it. *)
C23_UnderDeletionLogged ==
    (t_pc = "done" /\ DeleteIssued /\ CountBySource(store, t_cid) > t_keep) =>
        \E line \in TrimLogLines : line.level \in {"warning", "error"}

-----------------------------------------------------------------------------
(* The two calls of main.py that query the store inside a try of their own,
   each started on its own: cleanup_old_deals and filter_duplicates_by_title *)

InitStoreFailure == InitTrim \/ InitFilter

NextStoreFailure == NextTrim \/ NextFilter

SpecStoreFailure == InitStoreFailure /\ [][NextStoreFailure]_vars

FailedQueries ==
    {i \in 1 .. Len(t_log) : t_log[i] \in {"count_failed", "cutoff_failed", "delete_failed"}}

(* C16: a failing store query degrades gracefully. When the lookback query
   fails, filter_duplicates_by_title returns every input record, in order,
   and ends by returning. When the count, the cutoff or the delete query
   fails, cleanup_old_deals ends there: the failed query is the last one it
   issued, no delete took effect, and every row stored before the call (and
   every row written meanwhile) is still stored. *)
C16_StoreFailureDegrades ==
    /\ f_pc \in {"idle", "lookup", "loop", "returned"}
    /\ (f_pc = "returned" /\ ~f_query_ok) => f_out = f_deals
    /\ t_pc \in {"idle", "count", "cutoff", "delete", "done"}
    /\ TrimQueryFailed =>
          /\ t_pc = "done"
          /\ FailedQueries = {Len(t_log)}
          /\ \A i \in 1 .. Len(t_log) : t_log[i] # "delete"
          /\ store = t_store0 \cup t_writes

\* The delete query of a source above its limit fails: the rows stay
C16_Witness ==
    /\ t_pc = "done"
    /\ t_log = <<"count", "cutoff", "delete_failed">>
    /\ CountBySource(store, t_cid) > t_keep

-----------------------------------------------------------------------------
(* main.py: save_deals_to_supabase, insert by insert. A deal is [url,
   posted_at], posted_at None or a time; the rows are those of one source *)

SaveRecords == [url : 1 .. RunUrls, posted_at : {None} \cup (1 .. MaxTime)]

\* sorted(deals, key=lambda x: x.get('posted_at', '')) compares the keys of
\* neighbours with <: with two deals or more, a None among the keys raises
\* TypeError ('<' not supported between 'NoneType' and 'str')
SortRaises(ds) == Len(ds) >= 2 /\ \E i \in 1 .. Len(ds) : ds[i].posted_at = None

\* The batch inserted in the order the adapter returned it.
SortedAsCrawled(ds) == ds

\* sorted(...): ascending posted_at, deals of equal posted_at in their order
RECURSIVE SortedByPostedAt(_)
SortedByPostedAt(ds) ==
    IF ds = <<>> THEN <<>>
    ELSE LET front == SortedByPostedAt(SubSeq(ds, 1, Len(ds) - 1))
             x     == ds[Len(ds)]
             k     == Cardinality({i \in 1 .. Len(front) : front[i].posted_at <= x.posted_at})
         IN  SubSeq(front, 1, k) \o <<x>> \o SubSeq(front, k + 1, Len(front))

\* str(e) of the exceptions an insert raises, word by word: the store's
\* unique-key conflict, a time-out, a not-null violation quoting the row
ConflictMessage == <<"duplicate", "key", "value", "violates", "unique", "constraint">>

OtherMessages ==
    { <<"The", "read", "operation", "timed", "out">>,
      <<"null", "value", "violates", "not-null", "constraint", "Failing", "row",
        "contains", "Unique", "lamp">> }

\* error_msg.lower()
LowerWords(msg) == [i \in 1 .. Len(msg) |-> IF msg[i] = "Unique" THEN "unique" ELSE msg[i]]

\* 'duplicate' in error_msg.lower() or 'unique' in error_msg.lower()
LooksLikeDuplicate(msg) ==
    \E i \in 1 .. Len(msg) : LowerWords(msg)[i] \in {"duplicate", "unique"}

\* How one supabase.table('deals').insert(deal).execute() ends: the exception
\* of the transport if there is one, else the store's answer
InsertOutcome(st, c, deal, failure) ==
    IF failure # <<>> THEN [kind |-> "other", msg |-> failure]
    ELSE IF StoreAccepts(st, c, deal.url) THEN [kind |-> "ok", msg |-> <<>>]
    ELSE [kind |-> "conflict", msg |-> ConflictMessage]

\* deals_sorted = sorted(...)
SaveSort ==
    /\ s_pc = "sort"
    /\ IF SortRaises(s_deals)
       THEN s_pc' = "raised" /\ UNCHANGED s_sorted
       ELSE s_pc' = "insert" /\ s_sorted' = SortedByPostedAt(s_deals)
    /\ UNCHANGED <<s_deals, s_i, s_saved, s_dup, s_err, s_log, s_result>>
    /\ UNCHANGED <<store, runVars, trimVars, crawlVars, gotoVars, filterVars, parseVars, communityVars, mainVars>>

\* One pass of `for deal in deals_sorted`
SaveInsertOne ==
    /\ s_pc = "insert"
    /\ s_i < Len(s_sorted)
    /\ \E failure \in {<<>>} \cup OtherMessages :
        LET deal == s_sorted[s_i + 1]
            out  == InsertOutcome(store, Clien, deal, failure)
        IN  /\ IF out.kind = "ok"
               THEN /\ store' = StoreInsert(store, Clien, deal.url)
                    /\ s_saved' = s_saved + 1
                    /\ UNCHANGED <<s_dup, s_err>>
               ELSE /\ UNCHANGED <<store, s_saved>>
                    /\ IF LooksLikeDuplicate(out.msg)
                       THEN s_dup' = s_dup + 1 /\ UNCHANGED s_err
                       ELSE s_err' = s_err + 1 /\ UNCHANGED s_dup
            /\ s_log' = Append(s_log, [deal |-> deal, kind |-> out.kind])
    /\ s_i' = s_i + 1
    /\ UNCHANGED <<s_pc, s_deals, s_sorted, s_result>>
    /\ UNCHANGED <<runVars, trimVars, crawlVars, gotoVars, filterVars, parseVars, communityVars, mainVars>>

\* return saved_count
SaveReturn ==
    /\ s_pc = "insert"
    /\ s_i >= Len(s_sorted)
    /\ s_pc' = "returned"
    /\ s_result' = s_saved
    /\ UNCHANGED <<s_deals, s_sorted, s_i, s_saved, s_dup, s_err, s_log>>
    /\ UNCHANGED <<store, runVars, trimVars, crawlVars, gotoVars, filterVars, parseVars, communityVars, mainVars>>

\* Table contents when the save begins: some urls of the source are stored
SaveStores == {{Row(Clien, u, 1) : u \in K} : K \in SUBSET (1 .. RunUrls)}

InitSave ==
    /\ s_pc = "sort"
    /\ s_deals \in SeqsUpTo(SaveRecords, MaxSaveBatch)
    /\ s_sorted = <<>> /\ s_i = 0
    /\ s_saved = 0 /\ s_dup = 0 /\ s_err = 0 /\ s_log = <<>> /\ s_result = "none"
    /\ store \in SaveStores
    /\ RunIdle /\ TrimIdle /\ CrawlIdle /\ GotoIdle /\ FilterIdle /\ ParseIdle /\ CommunityIdle /\ MainIdle

NextSave == SaveSort \/ SaveInsertOne \/ SaveReturn

SpecSave == InitSave /\ [][NextSave]_vars

EndedAs(kind) == Cardinality({i \in 1 .. Len(s_log) : s_log[i].kind = kind})

(* C17: save_deals_to_supabase attempts exactly one insert per record of the
   batch and returns; every insert the store rejects as a unique-key conflict
   is counted as a duplicate and every other failed insert as an error; the
   count returned is the number of inserts that succeeded, and saved +
   duplicates + errors = size of the batch. *)
C17_SaveCounts ==
    s_pc \in {"returned", "raised"} =>
        /\ s_pc = "returned"
        /\ Len(s_log) = Len(s_deals)
        /\ [i \in 1 .. Len(s_log) |-> s_log[i].deal] = SortedByPostedAt(s_deals)
        /\ s_result = EndedAs("ok")
        /\ s_dup = EndedAs("conflict")
        /\ s_err = EndedAs("other")
        /\ s_saved + s_dup + s_err = Len(s_deals)

\* The deal of the last insert that succeeded
LastInserted ==
    LET ok == {i \in 1 .. Len(s_log) : s_log[i].kind = "ok"}
    IN  s_log[SetMax(ok)].deal

(* C28: save_deals_to_supabase inserts the batch oldest first. After a save in
   which every insert succeeded, the record inserted last has the greatest
   posted_at of the batch, and its url is what the next run's marker lookup
   resolves for the source. *)
C28_LastInsertedIsNewest ==
    (s_pc = "returned" /\ s_deals # <<>> /\ s_saved = Len(s_deals)) =>
        /\ \A i \in 1 .. Len(s_deals) : s_deals[i].posted_at <= LastInserted.posted_at
        /\ LatestUrls(store)[Clien] = LastInserted.url

\* A batch the adapter returned newest first was saved whole
C28_Witness ==
    /\ s_pc = "returned"
    /\ Len(s_deals) = 2 /\ s_saved = 2
    /\ s_deals[1].posted_at > s_deals[2].posted_at
    /\ LastInserted = s_deals[1]
    /\ LatestUrls(store)[Clien] = s_deals[1].url

(* C29: save_deals_to_supabase returns a count and never raises, whatever
   batch an adapter returned, batches of two or more records with a posted_at
   of None included; when it has returned, an insert was attempted for every
   record of the batch. *)
C29_SaveNeverRaises ==
    /\ s_pc # "raised"
    /\ s_pc = "returned" =>
          /\ s_result \in 0 .. Len(s_deals)
          /\ \A i \in 1 .. Len(s_deals) :
                \E j \in 1 .. Len(s_log) : s_log[j].deal = s_deals[i]

-----------------------------------------------------------------------------
(* community/*.py: the article loop of _crawl_page with _parse_article. An
   article is [url, date]: its title and link are parsable, date is the posted
   time its page yields, None when there is none to be found *)

ParseKinds == {"clien", "arcalive", "coolenjoy", "dealbada_korea", "bbassk_overseas"}

\* `if not post_date: return None` in _parse_article: clien, ruliweb,
\* quasarzone, eomisae_rt, arcalive have it; coolenjoy, dealbada_korea and
\* bbassk_overseas put post_date into the deal as it is
DropsUndated(kind) == kind \in {"clien", "ruliweb", "quasarzone", "eomisae_rt", "arcalive"}

\* seen_urls / unique_articles before the loop
DedupesPage(kind) == kind \in {"arcalive", "coolenjoy", "dealbada_korea"}

\* _parse_article: None (here <<>>) or the deal
ParseArticle(kind, article) ==
    IF DropsUndated(kind) /\ article.date = None THEN <<>>
    ELSE <<[url |-> article.url, posted_at |-> article.date]>>

\* One pass of `for article in articles` (`in unique_articles`)
ParseLoopArticle ==
    /\ p_pc = "loop"
    /\ p_i < Len(p_articles)
    /\ ~p_should_stop
    /\ LET deal == ParseArticle(p_kind, p_articles[p_i + 1])
       IN  IF deal = <<>>
           THEN UNCHANGED <<p_deals, p_should_stop>>
           ELSE IF p_last_url # None /\ deal[1].url = p_last_url
           THEN p_should_stop' = TRUE /\ UNCHANGED p_deals
           ELSE p_deals' = p_deals \o deal /\ UNCHANGED p_should_stop
    /\ p_i' = p_i + 1
    /\ UNCHANGED <<p_pc, p_kind, p_articles, p_last_url>>
    /\ UNCHANGED <<store, runVars, trimVars, crawlVars, gotoVars, filterVars, saveVars, communityVars, mainVars>>

\* return deals, should_stop
ParseReturn ==
    /\ p_pc = "loop"
    /\ (p_i >= Len(p_articles) \/ p_should_stop)
    /\ p_pc' = "returned"
    /\ UNCHANGED <<p_kind, p_articles, p_last_url, p_i, p_deals, p_should_stop>>
    /\ UNCHANGED <<store, runVars, trimVars, crawlVars, gotoVars, filterVars, saveVars, communityVars, mainVars>>

ArticleRecords == [url : 1 .. RunUrls, date : {None} \cup (1 .. MaxTime)]

InitParse ==
    /\ p_pc = "loop"
    /\ p_kind \in ParseKinds
    /\ p_articles \in SeqsUpTo(ArticleRecords, MaxArticles)
    /\ DedupesPage(p_kind) =>
          \A i, j \in 1 .. Len(p_articles) : p_articles[i].url = p_articles[j].url => i = j
    /\ p_last_url \in {None} \cup (1 .. RunUrls)
    /\ p_i = 0 /\ p_deals = <<>> /\ p_should_stop = FALSE
    /\ store = {}
    /\ RunIdle /\ TrimIdle /\ CrawlIdle /\ GotoIdle /\ FilterIdle /\ SaveIdle /\ CommunityIdle /\ MainIdle

NextParse == ParseLoopArticle \/ ParseReturn

SpecParse == InitParse /\ [][NextParse]_vars

(* C19: every record an adapter returns has a resolved posted_at: an article
   whose posted time cannot be resolved is dropped by the adapter. *)
C19_PostedAtResolved ==
    \A i \in 1 .. Len(p_deals) : p_deals[i].posted_at # None

-----------------------------------------------------------------------------
(* crawler_manager.py: CrawlerManager.crawl_community, step by step. A name is
   the community_id of its entry in CRAWL_CONFIG; Unregistered is a name that
   is neither a key of self.crawlers nor of CRAWL_CONFIG *)

Unregistered == 99

CommunityNames == SourceSet \cup {Unregistered}

\* crawler = self.crawlers[community_name]
CrawlerFor(name) == name

\* config = CRAWL_CONFIG[community_name]; config['community_id']
ConfigCommunityId(name) == name

\* QuasarzoneCrawler.COMMUNITY_ID = 4, while CRAWL_CONFIG['quasarzone'] has 40
QuasarzoneAdapterId == 4

\* 'community_id': self.COMMUNITY_ID of the deals the adapter builds
AdapterCommunityId(crawler) ==
    IF crawler = Quasarzone THEN QuasarzoneAdapterId ELSE crawler

\* save_deals_fn(filtered_deals, supabase) when the sort goes through: the
\* table after the inserts and saved_count; fails are the positions in
\* deals_sorted whose insert raises something else than a key conflict
RECURSIVE SaveFrom(_, _, _, _, _)
SaveFrom(st, c, ds, fails, i) ==
    IF i > Len(ds) THEN [store |-> st, saved |-> 0]
    ELSE IF i \in fails \/ ~StoreAccepts(st, c, ds[i])
    THEN SaveFrom(st, c, ds, fails, i + 1)
    ELSE LET r == SaveFrom(StoreInsert(st, c, ds[i]), c, ds, fails, i + 1)
         IN  [store |-> r.store, saved |-> r.saved + 1]

SaveDeals(st, c, ds, fails) == SaveFrom(st, c, SortByPostedAt(ds), fails, 1)

\* except Exception: log, return 0
CommunityFail ==
    /\ m_result' = 0
    /\ m_pc' = "returned"
    /\ m_deals' = <<>>

\* The two membership tests at the head
CommunityCheck ==
    /\ m_pc = "check"
    /\ IF m_name \notin SourceSet \/ m_name \notin Configured
       THEN m_result' = 0 /\ m_pc' = "returned"
       ELSE m_pc' = "crawl" /\ UNCHANGED m_result
    /\ UNCHANGED <<store, m_name, m_deals, m_saved, m_call, m_store0, m_trimmed>>
    /\ UNCHANGED <<runVars, trimVars, crawlVars, gotoVars, filterVars, saveVars, parseVars, mainVars>>

\* deals = crawler.crawl(max_pages=config['max_pages']); if not deals: return 0
CommunityCrawl ==
    /\ m_pc = "crawl"
    /\ LET crawler == CrawlerFor(m_name)
       IN  \E launched \in BOOLEAN, site \in RunListings, navfail \in {{}, {0}} :
            /\ m_call' = [src |-> crawler, kw |-> FALSE, passed |-> None]
            /\ IF ~AcceptsCall(KindOf(crawler), FALSE) \/ ~launched
               THEN CommunityFail
               ELSE LET r == Crawl(KindOf(crawler), site, navfail, MaxPagesCfg, None)
                    IN  IF r.deals = <<>>
                        THEN /\ m_result' = 0 /\ m_pc' = "returned"
                             /\ UNCHANGED m_deals
                        ELSE /\ m_deals' = r.deals /\ m_pc' = "filter"
                             /\ UNCHANGED m_result
    /\ UNCHANGED <<store, m_name, m_saved, m_store0, m_trimmed>>
    /\ UNCHANGED <<runVars, trimVars, crawlVars, gotoVars, filterVars, saveVars, parseVars, mainVars>>

\* filtered_deals = filter_duplicates_fn(deals, ...)
CommunityFilter ==
    /\ m_pc = "filter"
    /\ \E raises \in BOOLEAN :
        IF raises THEN CommunityFail
        ELSE /\ m_deals' = FilterDuplicatesByTitle(m_deals, store)
             /\ m_pc' = "save"
             /\ UNCHANGED m_result
    /\ UNCHANGED <<store, m_name, m_saved, m_call, m_store0, m_trimmed>>
    /\ UNCHANGED <<runVars, trimVars, crawlVars, gotoVars, filterVars, saveVars, parseVars, mainVars>>

\* saved_count = save_deals_fn(filtered_deals, self.supabase)
CommunitySave ==
    /\ m_pc = "save"
    /\ \E raises \in BOOLEAN, fails \in SUBSET (1 .. Len(m_deals)) :
        IF raises
        THEN /\ fails = {}
             /\ CommunityFail
             /\ UNCHANGED <<store, m_saved>>
        ELSE LET r == SaveDeals(store, AdapterCommunityId(CrawlerFor(m_name)), m_deals, fails)
             IN  /\ store' = r.store
                 /\ m_saved' = r.saved
                 /\ m_pc' = "trim"
                 /\ UNCHANGED <<m_deals, m_result>>
    /\ UNCHANGED <<m_name, m_call, m_store0, m_trimmed>>
    /\ UNCHANGED <<runVars, trimVars, crawlVars, gotoVars, filterVars, saveVars, parseVars, mainVars>>

\* cleanup_fn(supabase, community_id=..., keep_count=...); return saved_count
CommunityTrim ==
    /\ m_pc = "trim"
    /\ LET c == ConfigCommunityId(m_name)
       IN  \E outcome \in {"ok", "query_failed", "raises"} :
            /\ m_trimmed' = m_trimmed \cup {c}
            /\ IF outcome = "raises"
               THEN CommunityFail /\ UNCHANGED store
               ELSE /\ store' = IF outcome = "ok"
                                THEN Compact(CleanupOldDeals(store, c, KeepCountCfg))
                                ELSE store
                    /\ m_result' = m_saved
                    /\ m_pc' = "returned"
                    /\ UNCHANGED m_deals
    /\ UNCHANGED <<m_name, m_saved, m_call, m_store0>>
    /\ UNCHANGED <<runVars, trimVars, crawlVars, gotoVars, filterVars, saveVars, parseVars, mainVars>>

\* The orders in which up to RunUrls urls of a source may have been stored
StoredOrders == {q \in SeqsUpTo(1 .. RunUrls, RunUrls) :
                    \A i, j \in 1 .. Len(q) : q[i] = q[j] => i = j}

\* Every table in which each source holds some urls, created one after the other
CommunityStores ==
    {UNION {{Row(c, ord[c][i], i) : i \in 1 .. Len(ord[c])} : c \in SourceSet} :
        ord \in [SourceSet -> StoredOrders]}

InitCommunity ==
    /\ m_pc = "check"
    /\ m_name \in CommunityNames
    /\ store \in CommunityStores
    /\ m_store0 = store
    /\ m_deals = <<>> /\ m_saved = 0 /\ m_result = "none" /\ m_call = <<>> /\ m_trimmed = {}
    /\ RunIdle /\ TrimIdle /\ CrawlIdle /\ GotoIdle /\ FilterIdle /\ SaveIdle /\ ParseIdle /\ MainIdle

NextCommunity ==
    CommunityCheck \/ CommunityCrawl \/ CommunityFilter \/ CommunitySave \/ CommunityTrim

SpecCommunity == InitCommunity /\ [][NextCommunity]_vars

(* C21: the stop marker resolved for a source is passed to its adapter on
   the crawl call of the single-source run: the adapter is called without a
   marker only when the table held no row of that source. *)
C21_MarkerPassedOnCall ==
    m_call # <<>> => m_call.passed = LatestUrls(m_store0)[m_call.src]

CommunityIds == {r.community_id : r \in store \cup m_store0}

(* C24: crawl_community(name) calls only the adapter of the named source and
   writes and trims only rows of that source; for a name that is not
   registered or not configured it returns 0 without a crawl, a write to the
   table or a trim. *)
C24_SingleSourceFrame ==
    /\ (m_call # <<>> => m_call.src = m_name)
    /\ m_trimmed \subseteq {m_name}
    /\ m_pc # "idle" =>
          \A c \in CommunityIds \ {m_name} : RowsOf(store, c) = RowsOf(m_store0, c)
    /\ (m_pc = "returned" /\ (m_name \notin SourceSet \/ m_name \notin Configured)) =>
          /\ m_result = 0
          /\ m_call = <<>>
          /\ store = m_store0
          /\ m_trimmed = {}

-----------------------------------------------------------------------------
(* main.py: main, with crawl_all below it, as far as exceptions go: every
   call either goes through or raises, and an exception travels up to the
   first try around it *)

SourceStepNames == <<"crawl", "filter", "save", "trim">>

\* A try around the crawl call only
SourceTryCoversCrawl(step) == step = "crawl"

\* crawl_all: the try of the loop body spans the crawl call, the filter, the
\* save and the cleanup
SourceTryCovers(step) == step \in {"crawl", "filter", "save", "trim"}

PositionOf(step) == CHOOSE k \in 1 .. Len(SourceStepNames) : SourceStepNames[k] = step

\* main's except: log, raise
MainRaise(at) ==
    /\ x_pc' = "raised"
    /\ x_at' = at
    /\ UNCHANGED <<x_idx, x_log>>

\* supabase = SupabaseClient.get_client(): ValueError without SUPABASE_URL or
\* SUPABASE_KEY, or create_client raises
MainConnect ==
    /\ x_pc = "connect"
    /\ \E outcome \in {"ok", "env_missing", "create_client_raises"} :
        IF outcome = "ok"
        THEN x_pc' = "manager" /\ UNCHANGED <<x_idx, x_log, x_at>>
        ELSE MainRaise("connect")
    /\ UNCHANGED <<store, runVars, trimVars, crawlVars, gotoVars, filterVars,
                   saveVars, parseVars, communityVars>>

\* manager = CrawlerManager(supabase): the adapters are built and registered
MainCreateManager ==
    /\ x_pc = "manager"
    /\ x_pc' = "lookup"
    /\ UNCHANGED <<x_idx, x_log, x_at>>
    /\ UNCHANGED <<store, runVars, trimVars, crawlVars, gotoVars, filterVars,
                   saveVars, parseVars, communityVars>>

\* self._get_latest_urls(): its own try catches whatever the rpc raises
MainLookup ==
    /\ x_pc = "lookup"
    /\ \E raises \in BOOLEAN :
        x_log' = IF raises THEN Append(x_log, <<0, "lookup">>) ELSE x_log
    /\ x_idx' = 1
    /\ x_pc' = "crawl"
    /\ UNCHANGED x_at
    /\ UNCHANGED <<store, runVars, trimVars, crawlVars, gotoVars, filterVars,
                   saveVars, parseVars, communityVars>>

\* One call of the loop body of crawl_all for the source at x_idx
MainSourceStep ==
    /\ x_pc \in {"crawl", "filter", "save", "trim"}
    /\ x_idx <= Len(Registered)
    /\ \E outcome \in {"ok", "empty", "raises"} :
        /\ outcome = "empty" => x_pc = "crawl"
        /\ IF outcome = "raises"
           THEN IF SourceTryCovers(x_pc)
                THEN \* except Exception: log, continue
                     /\ x_log' = Append(x_log, <<x_idx, x_pc>>)
                     /\ x_idx' = x_idx + 1
                     /\ x_pc' = "crawl"
                     /\ UNCHANGED x_at
                ELSE MainRaise(x_pc)
           ELSE IF outcome = "empty" \/ x_pc = "trim"
           THEN /\ x_idx' = x_idx + 1
                /\ x_pc' = "crawl"
                /\ UNCHANGED <<x_log, x_at>>
           ELSE /\ x_pc' = SourceStepNames[PositionOf(x_pc) + 1]
                /\ UNCHANGED <<x_idx, x_log, x_at>>
    /\ UNCHANGED <<store, runVars, trimVars, crawlVars, gotoVars, filterVars,
                   saveVars, parseVars, communityVars>>

\* crawl_all returns its totals, main logs them and returns
MainReturn ==
    /\ x_pc = "crawl"
    /\ x_idx > Len(Registered)
    /\ x_pc' = "returned"
    /\ UNCHANGED <<x_idx, x_log, x_at>>
    /\ UNCHANGED <<store, runVars, trimVars, crawlVars, gotoVars, filterVars,
                   saveVars, parseVars, communityVars>>

InitMain ==
    /\ x_pc = "connect" /\ x_idx = 0 /\ x_log = <<>> /\ x_at = "none"
    /\ store = {}
    /\ RunIdle /\ TrimIdle /\ CrawlIdle /\ GotoIdle /\ FilterIdle /\ SaveIdle
    /\ ParseIdle /\ CommunityIdle

NextMain == MainConnect \/ MainCreateManager \/ MainLookup \/ MainSourceStep \/ MainReturn

SpecMain == InitMain /\ [][NextMain]_vars

(* C22: main raises only when SupabaseClient.get_client raises at startup:
   no exception of an adapter call, of the marker lookup, of the filter, of
   the save or of the trim leaves crawl_all or main, and once the client is
   there the run goes through every source. *)
C22_OnlyConnectFailureFatal ==
    /\ x_pc = "raised" => (x_at = "connect" /\ x_log = <<>>)
    /\ x_pc = "returned" =>
          /\ x_at = "none"
          /\ x_idx = Len(Registered) + 1

\* A run that returned although the lookup, a crawl, a save and a trim raised
C22_Witness ==
    /\ x_pc = "returned"
    /\ x_log = << <<0, "lookup">>, <<1, "crawl">>, <<2, "save">>, <<3, "trim">> >>

====
